---- MODULE Spec2Model ----
(***************************************************************************)
(* Model of app.py, the project timeline dashboard: three category tables  *)
(* loaded from one workbook, a scatter figure of milestone points, and the *)
(* callback handle_date_modification that opens the edit form on a click   *)
(* and saves the two note fields on "Commit Edit".                         *)
(*                                                                         *)
(* Python strings that the code splits or concatenates are sequences of    *)
(* one-character strings; strings the code only stores (the two notes) are *)
(* plain strings.  A calendar date is <<year, month, day>>; NaT is <<>>.   *)
(***************************************************************************)
EXTENDS Integers, Sequences, FiniteSets, TLC

(***************************************************************************)
(* Bounds of the model.                                                    *)
(***************************************************************************)
MaxClicks == 2

(***************************************************************************)
(* Program constants.                                                      *)
(***************************************************************************)
sheet_names == {"Localization", "Others", "Energy"}

date_columns ==
    << "RFQ send date", "DFM close date", "Biz award date",
       "Line installation date", "Line readiness date",
       "First off process date", "C exit date", "TQP date" >>

Closed == << "C", "l", "o", "s", "e", "d" >>

NaT == << >>

(***************************************************************************)
(* Python string primitives used by the handler.                           *)
(***************************************************************************)
\* The start indices of the occurrences of " (" in s.
ParenSepAt(s) ==
    { i \in 1..(Len(s) - 1) : s[i] = " " /\ s[i + 1] = "(" }

MaxOf(S) == CHOOSE x \in S : \A y \in S : y <= x

\* s.rsplit(" (", 1): split once, at the last occurrence.
rsplit(s) ==
    IF ParenSepAt(s) = {}
    THEN << s >>
    ELSE LET i == MaxOf(ParenSepAt(s))
         IN  << SubSeq(s, 1, i - 1), SubSeq(s, i + 2, Len(s)) >>

\* s.rstrip(")"): drop every trailing ")".
RECURSIVE rstrip(_)
rstrip(s) ==
    IF s # << >> /\ s[Len(s)] = ")"
    THEN rstrip(SubSeq(s, 1, Len(s) - 1))
    ELSE s

\* s.split("_"): the parts between underscores (one more than underscores).
RECURSIVE split(_)
split(s) ==
    LET U == { i \in 1..Len(s) : s[i] = "_" }
    IN  IF U = {}
        THEN << s >>
        ELSE LET i == MaxOf(U)
             IN  Append(split(SubSeq(s, 1, i - 1)), SubSeq(s, i + 1, Len(s)))

(***************************************************************************)
(* Dates: pd.to_datetime(..., errors='coerce') on the ISO text form, and   *)
(* the text plotly reports for a point's x.                                *)
(***************************************************************************)
Digits == << "0", "1", "2", "3", "4", "5", "6", "7", "8", "9" >>

IsDigit(c) == \E d \in 1..10 : Digits[d] = c

DigitVal(c) == (CHOOSE d \in 1..10 : Digits[d] = c) - 1

RECURSIVE NumVal(_)
NumVal(s) ==
    IF s = << >> THEN 0
    ELSE 10 * NumVal(SubSeq(s, 1, Len(s) - 1)) + DigitVal(s[Len(s)])

IsLeap(y) == (y % 4 = 0 /\ y % 100 # 0) \/ y % 400 = 0

DaysIn(y, m) ==
    IF m = 2 THEN (IF IsLeap(y) THEN 29 ELSE 28)
    ELSE IF m \in {4, 6, 9, 11} THEN 30 ELSE 31

\* Text "YYYY-MM-DD" of a real calendar day parses; anything else is coerced
\* to NaT.
ParseDate(s) ==
    IF /\ Len(s) = 10
       /\ s[5] = "-" /\ s[8] = "-"
       /\ \A i \in {1, 2, 3, 4, 6, 7, 9, 10} : IsDigit(s[i])
    THEN LET y == NumVal(SubSeq(s, 1, 4))
             m == NumVal(SubSeq(s, 6, 7))
             d == NumVal(SubSeq(s, 9, 10))
         IN  IF y >= 1 /\ m \in 1..12 /\ d \in 1..DaysIn(y, m)
             THEN << y, m, d >>
             ELSE NaT
    ELSE NaT

Pad(n, w) ==
    [ i \in 1..w |-> Digits[((n \div (10 ^ (w - i))) % 10) + 1] ]

\* The text of a date as the figure carries it: %Y-%m-%d.
FormatDate(d) ==
    IF d = NaT THEN << >>
    ELSE Pad(d[1], 4) \o << "-" >> \o Pad(d[2], 2) \o << "-" >> \o Pad(d[3], 2)

(***************************************************************************)
(* Tables.  A row is a function from column names to cells.  In the        *)
(* workbook a date cell is a native date, a text or empty; in a loaded     *)
(* table it is a date or NaT.                                              *)
(***************************************************************************)
DateCols == { date_columns[i] : i \in 1..Len(date_columns) }

Columns ==
    {"Project", "SIE", "Risk Level", "Next step plan", "Action Items for Cindy"}
        \cup DateCols

EmptyCell == [t |-> "empty", v |-> << >>]
DateCell(d) == [t |-> "datetime", v |-> d]
TextCell(s) == [t |-> "str", v |-> s]

\* pd.to_datetime(cell, errors='coerce')
to_datetime(cell) ==
    IF cell.t = "datetime" THEN cell.v
    ELSE IF cell.t = "str" THEN ParseDate(cell.v)
    ELSE NaT

\* pd.read_excel of one sheet followed by the coercion of the date columns.
read_excel(sheet) ==
    [ i \in 1..Len(sheet) |->
        [ c \in Columns |->
            IF c \in DateCols THEN to_datetime(sheet[i][c]) ELSE sheet[i][c] ] ]

\* df.to_excel: a date is written as a native date cell, NaT as an empty cell;
\* every other column is written as it is.
to_excel(df) ==
    [ i \in 1..Len(df) |->
        [ c \in Columns |->
            IF c \in DateCols
            THEN (IF df[i][c] = NaT THEN EmptyCell ELSE DateCell(df[i][c]))
            ELSE df[i][c] ] ]

\* A variant of filter_risk_level that keeps every row.
filter_risk_level_keeps_all(df) == df

\* df[df["Risk Level"] != "Closed"]
filter_risk_level(df) ==
    SelectSeq(df, LAMBDA row : row["Risk Level"] # Closed)

\* The y value of a row's points: Project + "_" + SIE + " (" + Risk Level + ")".
Project_SIE_Risk(row) ==
    row["Project"] \o << "_" >> \o row["SIE"] \o << " ", "(" >>
        \o row["Risk Level"] \o << ")" >>

\* df.melt: one record per (milestone column, row), column by column.
melt(df) ==
    LET n == Len(df)
    IN  [ k \in 1..(Len(date_columns) * n) |->
            LET row == df[((k - 1) % n) + 1]
                col == date_columns[((k - 1) \div n) + 1]
            IN  [ c \in {"SIE", "Project", "Risk Level", "Milestone", "Date"} |->
                    IF c = "Milestone" THEN col
                    ELSE IF c = "Date" THEN row[col]
                    ELSE row[c] ] ]

\* The clickable points of the scatter figure, as clickData reports them: y is
\* the row key, x the date text, customdata the milestone.  A melted record
\* with no date has no position and is not drawn.
create_timeline_plot(df) ==
    LET df_melted == melt(filter_risk_level(df))
        drawn == SelectSeq(df_melted, LAMBDA r : r["Date"] # NaT)
    IN  [ k \in 1..Len(drawn) |->
            [ y |-> Project_SIE_Risk(drawn[k]),
              x |-> FormatDate(drawn[k]["Date"]),
              customdata |-> drawn[k]["Milestone"] ] ]

(***************************************************************************)
(* The decoder of the click and commit handlers.                           *)
(***************************************************************************)
\* The try block: exc is the exception it raises, "" when it raises none.
parse_selected_project(selected_project) ==
    LET selected_project_split == rsplit(selected_project)
    IN  IF Len(selected_project_split) < 2
        THEN [ exc |-> "IndexError",
               project_name |-> << >>, sie |-> << >>, risk_level |-> << >> ]
        ELSE LET project_sie == selected_project_split[1]
                 risk == rstrip(selected_project_split[2])
                 parts == split(project_sie)
             IN  IF Len(parts) # 2
                 THEN [ exc |-> "ValueError",
                        project_name |-> << >>, sie |-> << >>,
                        risk_level |-> << >> ]
                 ELSE [ exc |-> "",
                        project_name |-> parts[1], sie |-> parts[2],
                        risk_level |-> risk ]

\* A variant of caught: except ValueError alone.
caught_value_error_only(exc) == exc = "ValueError"

\* except (IndexError, ValueError)
caught(exc) == exc \in {"IndexError", "ValueError"}

\* A variant of matches that leaves the Risk Level out of the mask.
matches_project_sie_only(row, d) ==
    /\ row["Project"] = d.project_name
    /\ row["SIE"] = d.sie

\* The row mask of the lookup and of the update.
matches(row, d) ==
    /\ row["Project"] = d.project_name
    /\ row["SIE"] = d.sie
    /\ row["Risk Level"] = d.risk_level

(***************************************************************************)
(* The callback handle_date_modification.                                  *)
(***************************************************************************)
NoMessage == [msg |-> "", key |-> << >>]
ParseErrorMessage ==
    [msg |-> "Error: Unable to parse the selected project.", key |-> << >>]
NoMatchMessage(selected_project) ==
    [msg |-> "Error: No matching project found for", key |-> selected_project]
SavedMessage(selected_project) ==
    [msg |-> "have been successfully saved.", key |-> selected_project]

\* The six outputs with both sections hidden and every field empty.
Hidden(message) ==
    [ date_input_section |-> "none", new_date_input |-> << >>,
      edit_section |-> "none", next_step_plan |-> "", action_items |-> "",
      output_text |-> message ]

\* A variant of select_df that returns the first table whatever the sheet.
select_df_localization(sheet, frames) == frames["Localization"]

\* The if/elif chain that selects the table of a sheet name.
select_df(sheet, frames) ==
    IF sheet = "Localization" THEN frames["Localization"]
    ELSE IF sheet = "Others" THEN frames["Others"]
    ELSE frames["Energy"]

\* The name of the global that select_df returns.
selected_frame(sheet) ==
    IF sheet = "Localization" THEN "Localization"
    ELSE IF sheet = "Others" THEN "Others"
    ELSE "Energy"

\* A variant of update_notes that assigns "Next step plan" alone.
update_notes_plan_only(df, d, nsp, ai) ==
    [ i \in 1..Len(df) |->
        IF matches(df[i], d)
        THEN [ df[i] EXCEPT !["Next step plan"] = nsp ]
        ELSE df[i] ]

\* The two df.loc[mask, column] = value assignments.
update_notes(df, d, nsp, ai) ==
    [ i \in 1..Len(df) |->
        IF matches(df[i], d)
        THEN [ df[i] EXCEPT !["Next step plan"] = nsp,
                            !["Action Items for Cindy"] = ai ]
        ELSE df[i] ]

\* A variant of write_sheet that opens the workbook with mode='w': the file
\* is left with the written sheet alone.
write_sheet_truncating(workbook, sheet, df) ==
    [ s \in DOMAIN workbook |-> IF s = sheet THEN to_excel(df) ELSE << >> ]

\* A variant of write_sheet with the sheet name of the first table written
\* in the call.
write_sheet_localization(workbook, sheet, df) ==
    [ workbook EXCEPT !["Localization"] = to_excel(df) ]

\* pd.ExcelWriter(mode='a', if_sheet_exists='replace') + df.to_excel: the
\* named sheet is replaced, the other sheets of the workbook are kept.
write_sheet(workbook, sheet, df) ==
    [ workbook EXCEPT ![sheet] = to_excel(df) ]

\* The branch taken when the graph was clicked: the outputs it returns and
\* the exception that leaves it ("" for none).
click_branch(clickData_, sheet, frames) ==
    IF clickData_ = << >>
    THEN [ ret |-> Hidden(NoMessage), raised |-> "" ]
    ELSE LET current_date == clickData_[1].x
             selected_project == clickData_[1].y
             d == parse_selected_project(selected_project)
             df == select_df(sheet, frames)
             project_info == SelectSeq(df, LAMBDA row : matches(row, d))
         IN  IF d.exc # ""
             THEN IF caught(d.exc)
                  THEN [ ret |-> Hidden(ParseErrorMessage), raised |-> "" ]
                  ELSE [ ret |-> Hidden(NoMessage), raised |-> d.exc ]
             ELSE IF project_info = << >>
             THEN [ ret |-> Hidden(NoMatchMessage(selected_project)),
                    raised |-> "" ]
             ELSE [ ret |->
                      [ date_input_section |-> "block",
                        new_date_input |-> current_date,
                        edit_section |-> "block",
                        next_step_plan |-> project_info[1]["Next step plan"],
                        action_items |->
                            project_info[1]["Action Items for Cindy"],
                        output_text |-> NoMessage ],
                    raised |-> "" ]

\* The branch taken when "Commit Edit" was clicked with a selected point: the
\* outputs, the exception that leaves it, the tables and the workbook after
\* it.  write_ok tells whether the workbook can be written.
commit_branch(nsp, ai, click_data_state, sheet, frames, workbook, write_ok) ==
    LET same == [ ret |-> Hidden(NoMessage), raised |-> "",
                  frames |-> frames, workbook |-> workbook ]
        selected_project == click_data_state[1].y
        d == parse_selected_project(selected_project)
        name == selected_frame(sheet)
        df == update_notes(select_df(sheet, frames), d, nsp, ai)
        updated == [ frames EXCEPT ![name] = df ]
    IN  IF d.exc # ""
        THEN IF caught(d.exc)
             THEN [ same EXCEPT !.ret = Hidden(ParseErrorMessage) ]
             ELSE [ same EXCEPT !.raised = d.exc ]
        ELSE IF ~write_ok
        THEN [ same EXCEPT !.raised = "OSError", !.frames = updated ]
        ELSE [ ret |-> Hidden(SavedMessage(selected_project)),
               raised |-> "",
               frames |-> updated,
               workbook |-> write_sheet(workbook, sheet, df) ]

\* A variant of the callback that tests n_clicks and the selected point but
\* not which input triggered it: once "Commit Edit" was clicked, every click
\* on a point commits.
handle_date_modification_any_trigger(triggered, clickData_, n, nsp, ai, click_data_state, sheet, frames, workbook, write_ok) ==
    LET same == [ ret |-> Hidden(NoMessage), raised |-> "",
                  frames |-> frames, workbook |-> workbook ]
    IN  IF triggered = ""
        THEN same
        ELSE IF n > 0 /\ click_data_state # << >>
        THEN commit_branch(nsp, ai, click_data_state, sheet, frames, workbook,
                           write_ok)
        ELSE IF triggered = "timeline-graph.clickData"
        THEN LET r == click_branch(clickData_, sheet, frames)
             IN  [ same EXCEPT !.ret = r.ret, !.raised = r.raised ]
        ELSE same

\* A variant of the callback whose commit branch does not test n_clicks and
\* the selected point: without a point, indexing None raises.
handle_date_modification_unguarded(triggered, clickData_, n, nsp, ai, click_data_state, sheet, frames, workbook, write_ok) ==
    LET same == [ ret |-> Hidden(NoMessage), raised |-> "",
                  frames |-> frames, workbook |-> workbook ]
    IN  IF triggered = ""
        THEN same
        ELSE IF triggered = "timeline-graph.clickData"
        THEN LET r == click_branch(clickData_, sheet, frames)
             IN  [ same EXCEPT !.ret = r.ret, !.raised = r.raised ]
        ELSE IF click_data_state = << >>
        THEN [ same EXCEPT !.raised = "TypeError" ]
        ELSE commit_branch(nsp, ai, click_data_state, sheet, frames, workbook,
                           write_ok)

\* What one call of the callback does: the outputs it returns (ret), the
\* exception that leaves it (raised, "" for none; ret is then not used), and
\* the tables and the workbook after it.  write_ok tells whether the workbook
\* can be written.
handle_date_modification(triggered, clickData_, n, nsp, ai, click_data_state, sheet, frames, workbook, write_ok) ==
    LET same == [ ret |-> Hidden(NoMessage), raised |-> "",
                  frames |-> frames, workbook |-> workbook ]
    IN  IF triggered = ""
        THEN same
        ELSE IF triggered = "timeline-graph.clickData"
        THEN LET r == click_branch(clickData_, sheet, frames)
             IN  [ same EXCEPT !.ret = r.ret, !.raised = r.raised ]
        ELSE IF triggered = "commit-edit-btn.n_clicks"
                /\ n > 0 /\ click_data_state # << >>
        THEN commit_branch(nsp, ai, click_data_state, sheet, frames, workbook,
                           write_ok)
        ELSE same

\* The callback update_graph.
update_graph(sheet, frames) == create_timeline_plot(select_df(sheet, frames))

(***************************************************************************)
(* The workbooks the program is started on.                                *)
(***************************************************************************)
D20240629 == << "2", "0", "2", "4", "-", "0", "6", "-", "2", "9" >>
D20240115 == << "2", "0", "2", "4", "-", "0", "1", "-", "1", "5" >>
NotADate == << "n", "o", "t", "-", "a", "-", "d", "a", "t", "e" >>

\* A sheet row: identity, the cells of the first three milestones (the other
\* milestones are empty) and the two notes.
SheetRow(project, sie, risk, rfq, dfm, biz, nsp, ai) ==
    [ c \in Columns |->
        IF c = "Project" THEN project
        ELSE IF c = "SIE" THEN sie
        ELSE IF c = "Risk Level" THEN risk
        ELSE IF c = "Next step plan" THEN nsp
        ELSE IF c = "Action Items for Cindy" THEN ai
        ELSE IF c = "RFQ send date" THEN rfq
        ELSE IF c = "DFM close date" THEN dfm
        ELSE IF c = "Biz award date" THEN biz
        ELSE EmptyCell ]

\* The rows of the sample sheets: plain rows, closed rows, rows whose identity
\* fields hold characters of the key format, and one identity in two sheets.
RowABC ==
    SheetRow(<<"a">>, <<"b">>, <<"c">>,
             DateCell(<<2024, 6, 29>>), TextCell(D20240115), TextCell(NotADate),
             "p1", "q1")
RowClosed ==
    SheetRow(<<"a">>, <<"b">>, Closed,
             DateCell(<<2024, 1, 15>>), EmptyCell, EmptyCell, "p2", "q2")
RowRiskParen ==
    SheetRow(<<"a">>, <<"b">>, <<"c", ")">>,
             TextCell(D20240629), EmptyCell, EmptyCell, "p3", "q3")
RowABCOther ==
    SheetRow(<<"a">>, <<"b">>, <<"c">>,
             EmptyCell, DateCell(<<2024, 2, 29>>), EmptyCell, "p4", "q4")
RowProjectUnderscore ==
    SheetRow(<<"a", "_">>, <<"b">>, <<"c">>,
             DateCell(<<2024, 6, 29>>), EmptyCell, EmptyCell, "p5", "q5")
RowABD ==
    SheetRow(<<"a">>, <<"b">>, <<"d">>,
             TextCell(D20240629), EmptyCell, TextCell(NotADate), "p7", "q7")
RowRiskSeparator ==
    SheetRow(<<"a">>, <<"b">>, <<"c", " ", "(", "d">>,
             DateCell(<<2023, 12, 31>>), EmptyCell, EmptyCell, "p8", "q8")

\* A sheet of the workbook that the program never loads.
SummarySheet ==
    << SheetRow(<<"s">>, <<"t">>, <<"u">>,
                DateCell(<<2024, 6, 29>>), TextCell(D20240115),
                TextCell(NotADate), "p0", "q0") >>

Workbook(localization, others, energy) ==
    [ sheet \in sheet_names \cup {"Summary"} |->
        IF sheet = "Localization" THEN localization
        ELSE IF sheet = "Others" THEN others
        ELSE IF sheet = "Energy" THEN energy
        ELSE SummarySheet ]

\* The workbooks the program is started on.
Workbooks ==
    { Workbook(<< RowABC, RowClosed >>, << RowABCOther >>, << >>),
      Workbook(<< RowRiskParen, RowABC >>, << RowProjectUnderscore >>,
               << RowABD >>),
      Workbook(<< RowClosed >>, << RowABD, RowABCOther >>,
               << RowRiskSeparator >>) }

\* What the user can type into the two text areas and the date input.
NoteTexts == {"n1"}
DateTexts == {D20240629, NotADate}

(***************************************************************************)
(* State.                                                                  *)
(***************************************************************************)
VARIABLES
    excel_file,          \* the workbook on disk: sheet name -> rows
    dataframes,          \* localization_df, others_df, energy_df by sheet name
    sheet_dropdown,      \* value of 'sheet-dropdown'
    figure,              \* points of 'timeline-graph'
    clickData,           \* 'timeline-graph'.clickData: << >> or << point >>
    n_clicks,            \* 'commit-edit-btn'.n_clicks
    submit_date_n_clicks,\* 'submit-date-btn'.n_clicks
    date_input_section,  \* display style of 'date-input-section'
    new_date_input,      \* value of 'new-date-input'
    edit_section,        \* display style of 'edit-section'
    next_step_plan,      \* value of 'next-step-plan'
    action_items,        \* value of 'action-items-cindy'
    output_text,         \* children of 'output-text'
    raised,              \* exception that left the last callback, "" for none
    clicked_sheet,       \* history: the dropdown's value at the last click
    discarded_edit       \* history: the last event was a click that
                         \* replaced edited fields of the shown form

vars ==
    << excel_file, dataframes, sheet_dropdown, figure, clickData, n_clicks,
       submit_date_n_clicks, date_input_section, new_date_input, edit_section,
       next_step_plan, action_items, output_text, raised, clicked_sheet,
       discarded_edit >>

store == << excel_file, dataframes >>

form ==
    << date_input_section, new_date_input, edit_section, next_step_plan,
       action_items, output_text >>

\* The shown form holds something else than the last click put into it.
UnsavedEdit ==
    /\ edit_section = "block"
    /\ LET shown == click_branch(clickData, clicked_sheet, dataframes).ret
       IN  << new_date_input, next_step_plan, action_items >>
             # << shown.new_date_input, shown.next_step_plan,
                  shown.action_items >>

\* The outputs of a callback are applied to the page.
Render(ret) ==
    /\ date_input_section' = ret.date_input_section
    /\ new_date_input' = ret.new_date_input
    /\ edit_section' = ret.edit_section
    /\ next_step_plan' = ret.next_step_plan
    /\ action_items' = ret.action_items
    /\ output_text' = ret.output_text

\* A callback that raised updates no output.
Apply(r) ==
    /\ raised' = r.raised
    /\ dataframes' = r.frames
    /\ excel_file' = r.workbook
    /\ IF r.raised = "" THEN Render(r.ret) ELSE UNCHANGED form

\* Module load, then the first page load: the layout's initial values, the
\* callbacks run once with nothing triggered.
Init ==
    \E workbook \in Workbooks :
        /\ excel_file = workbook
        /\ dataframes = [ s \in sheet_names |-> read_excel(workbook[s]) ]
        /\ sheet_dropdown = "Localization"
        /\ figure = update_graph("Localization",
                        [ s \in sheet_names |-> read_excel(workbook[s]) ])
        /\ clickData = << >>
        /\ n_clicks = 0
        /\ submit_date_n_clicks = 0
        /\ date_input_section = "none"
        /\ new_date_input = << >>
        /\ edit_section = "none"
        /\ next_step_plan = ""
        /\ action_items = ""
        /\ output_text = NoMessage
        /\ raised = ""
        /\ clicked_sheet = ""
        /\ discarded_edit = FALSE

\* The user picks another sheet in the dropdown: update_graph redraws.
SelectSheet(sheet) ==
    /\ sheet # sheet_dropdown
    /\ sheet_dropdown' = sheet
    /\ figure' = update_graph(sheet, dataframes)
    /\ discarded_edit' = FALSE
    /\ UNCHANGED << store, clickData, clicked_sheet, n_clicks,
                    submit_date_n_clicks, form, raised >>

\* The user clicks the k-th point of the figure.
ClickPoint(k) ==
    /\ clickData' = << figure[k] >>
    /\ clicked_sheet' = sheet_dropdown
    /\ discarded_edit' = UnsavedEdit
    /\ Apply(handle_date_modification("timeline-graph.clickData",
                 << figure[k] >>, n_clicks, next_step_plan, action_items,
                 << figure[k] >>, sheet_dropdown, dataframes, excel_file, TRUE))
    /\ UNCHANGED << sheet_dropdown, figure, n_clicks, submit_date_n_clicks >>

\* The user edits a text area of the visible edit section.
TypeNextStepPlan(text) ==
    /\ edit_section = "block"
    /\ next_step_plan' = text
    /\ discarded_edit' = FALSE
    /\ UNCHANGED << store, sheet_dropdown, figure, clickData, clicked_sheet, n_clicks,
                    submit_date_n_clicks, date_input_section, new_date_input,
                    edit_section, action_items, output_text, raised >>

TypeActionItems(text) ==
    /\ edit_section = "block"
    /\ action_items' = text
    /\ discarded_edit' = FALSE
    /\ UNCHANGED << store, sheet_dropdown, figure, clickData, clicked_sheet, n_clicks,
                    submit_date_n_clicks, date_input_section, new_date_input,
                    edit_section, next_step_plan, output_text, raised >>

\* The user edits the date input of the visible date section.
TypeDate(text) ==
    /\ date_input_section = "block"
    /\ new_date_input' = text
    /\ discarded_edit' = FALSE
    /\ UNCHANGED << store, sheet_dropdown, figure, clickData, clicked_sheet, n_clicks,
                    submit_date_n_clicks, date_input_section, edit_section,
                    next_step_plan, action_items, output_text, raised >>

\* The user presses 'Submit' of the date section: no callback has
\* 'submit-date-btn' as an input, so only the button's counter moves.
SubmitDate ==
    /\ date_input_section = "block"
    /\ n_clicks + submit_date_n_clicks < MaxClicks
    /\ submit_date_n_clicks' = submit_date_n_clicks + 1
    /\ discarded_edit' = FALSE
    /\ UNCHANGED << store, sheet_dropdown, figure, clickData, clicked_sheet,
                    n_clicks, form, raised >>

\* The user presses 'Commit Edit'; the workbook can be written or not.
CommitEdit(write_ok) ==
    /\ edit_section = "block"
    /\ n_clicks + submit_date_n_clicks < MaxClicks
    /\ n_clicks' = n_clicks + 1
    /\ Apply(handle_date_modification("commit-edit-btn.n_clicks", clickData,
                 n_clicks + 1, next_step_plan, action_items, clickData,
                 sheet_dropdown, dataframes, excel_file, write_ok))
    /\ discarded_edit' = FALSE
    /\ UNCHANGED << sheet_dropdown, figure, clickData, clicked_sheet,
                    submit_date_n_clicks >>

Next ==
    \/ \E sheet \in sheet_names : SelectSheet(sheet)
    \/ \E k \in 1..Len(figure) : ClickPoint(k)
    \/ \E text \in NoteTexts : TypeNextStepPlan(text)
    \/ \E text \in NoteTexts : TypeActionItems(text)
    \/ \E text \in DateTexts : TypeDate(text)
    \/ SubmitDate
    \/ \E write_ok \in BOOLEAN : CommitEdit(write_ok)

\* The dashboard driven through its page.
Spec == Init /\ [][Next]_vars

(***************************************************************************)
(* The callback as the server exposes it: a request may carry any row key  *)
(* as the clicked point's y and may name the commit button whatever the    *)
(* page shows.  The date form reaches no callback, so its events are not   *)
(* requests.  A write that fails is exercised by CommitEdit alone.         *)
(***************************************************************************)
StrayKeys ==
    { << "a", "_", "b" >>,                        \* no " (" status part
      << "a", " ", "(", "c", ")" >>,              \* no "_"
      << "a", "_", "b", " ", "(", "c", ")" >>,    \* a well-formed key
      << "a", "_", "b", " ", "(", "z", ")" >> }   \* well-formed, of no row

\* A click event whose point carries the given key.
RequestClick(key) ==
    LET point == [ y |-> key, x |-> D20240629, customdata |-> date_columns[1] ]
    IN  /\ clickData' = << point >>
        /\ clicked_sheet' = sheet_dropdown
        /\ discarded_edit' = UnsavedEdit
        /\ Apply(handle_date_modification("timeline-graph.clickData",
                     << point >>, n_clicks, next_step_plan, action_items,
                     << point >>, sheet_dropdown, dataframes, excel_file, TRUE))
        /\ UNCHANGED << sheet_dropdown, figure, n_clicks,
                        submit_date_n_clicks >>

\* A commit event with click count n, whatever the page shows.
RequestCommit(n, write_ok) ==
    /\ n \in {0, n_clicks + 1}
    /\ n_clicks + submit_date_n_clicks < MaxClicks
    /\ n_clicks' = IF n = 0 THEN n_clicks ELSE n
    /\ Apply(handle_date_modification("commit-edit-btn.n_clicks", clickData,
                 n, next_step_plan, action_items, clickData, sheet_dropdown,
                 dataframes, excel_file, write_ok))
    /\ discarded_edit' = FALSE
    /\ UNCHANGED << sheet_dropdown, figure, clickData, clicked_sheet,
                    submit_date_n_clicks >>

NextHandler ==
    \/ \E sheet \in sheet_names : SelectSheet(sheet)
    \/ \E k \in 1..Len(figure) : ClickPoint(k)
    \/ \E text \in NoteTexts : TypeNextStepPlan(text)
    \/ \E text \in NoteTexts : TypeActionItems(text)
    \/ \E write_ok \in BOOLEAN : CommitEdit(write_ok)
    \/ \E key \in StrayKeys : RequestClick(key)
    \/ \E n \in 0..MaxClicks : RequestCommit(n, TRUE)

SpecHandler == Init /\ [][NextHandler]_vars

(***************************************************************************)
(* Properties.                                                             *)
(***************************************************************************)
\* The row key of the selected point, decoded as the handlers decode it.
Decoded == parse_selected_project(clickData[1].y)

\* The indices of the rows of df that the decoded key d matches.
Matched(df, d) == { i \in 1..Len(df) : d.exc = "" /\ matches(df[i], d) }

\* A row with its two note fields set.
WithNotes(row, nsp, ai) ==
    [ row EXCEPT !["Next step plan"] = nsp, !["Action Items for Cindy"] = ai ]

\* A step in which the commit callback ran and entered its commit branch.
CommitStep == n_clicks' = n_clicks + 1 /\ clickData # << >>

\* C1: for every row, decoding the key the projector builds for it
\* (Project + "_" + SIE + " (" + Risk Level + ")") yields exactly the row's
\* (Project, SIE, Risk Level); stated for the rows whose point was clicked,
\* as the handlers decode the key.
C1_KeyRoundTrip ==
    clickData # << >> =>
        \A s \in sheet_names : \A i \in 1..Len(dataframes[s]) :
            LET row == dataframes[s][i]
            IN  Project_SIE_Risk(row) = clickData[1].y =>
                    /\ Decoded.exc = ""
                    /\ Decoded.project_name = row["Project"]
                    /\ Decoded.sie = row["SIE"]
                    /\ Decoded.risk_level = row["Risk Level"]

\* C2: a commit from Viewing sets exactly the two note fields of exactly one
\* row of the selected sheet's table, the row the decoded key matches; every
\* other row, every other table and every other sheet of the workbook is
\* unchanged.
C2_CommitChangesOneRow ==
    [][ (CommitStep /\ edit_section = "block") =>
          LET df == dataframes[sheet_dropdown]
              after == dataframes'[sheet_dropdown]
          IN  /\ \E i \in 1..Len(df) :
                    /\ Matched(df, Decoded) = {i}
                    /\ after = [ df EXCEPT ![i] =
                                   WithNotes(df[i], next_step_plan,
                                             action_items) ]
              /\ \A s \in sheet_names \ {sheet_dropdown} :
                    dataframes'[s] = dataframes[s]
              /\ \A s \in DOMAIN excel_file \ {sheet_dropdown} :
                    excel_file'[s] = excel_file[s] ]_vars

\* A step in which the user pressed 'Submit' of the date form after changing
\* the date text of the selected point.
DateEditSubmitted ==
    /\ submit_date_n_clicks' = submit_date_n_clicks + 1
    /\ clickData # << >>
    /\ new_date_input # clickData[1].x

\* C3: submitting a valid ISO date text D for the selected (row, milestone)
\* sets that row's milestone field of the table to the date D, and the
\* sheet's cell holds the text D.
C3_DateEditStored ==
    [][ (DateEditSubmitted /\ ParseDate(new_date_input) # NaT) =>
          LET rows == Matched(dataframes[sheet_dropdown], Decoded)
              col == clickData[1].customdata
          IN  /\ rows # {}
              /\ \A i \in rows :
                    /\ dataframes'[sheet_dropdown][i][col]
                         = ParseDate(new_date_input)
                    /\ excel_file'[sheet_dropdown][i][col]
                         = TextCell(new_date_input) ]_vars

\* C4: submitting a date text that does not parse stores the selected row's
\* milestone field as absent.
C4_UnparseableDateStoredAbsent ==
    [][ (DateEditSubmitted /\ ParseDate(new_date_input) = NaT) =>
          LET rows == Matched(dataframes[sheet_dropdown], Decoded)
              col == clickData[1].customdata
          IN  /\ rows # {}
              /\ \A i \in rows : dataframes'[sheet_dropdown][i][col] = NaT
      ]_vars

\* A key with no " (" status part, or with no "_" before it.
LacksSeparator(key) ==
    \/ ParenSepAt(key) = {}
    \/ \A i \in 1..Len(rsplit(key)[1]) : rsplit(key)[1][i] # "_"

\* C5: when the click handler or the commit handler decodes a key that lacks a
\* separator, no exception leaves the handler, the parse error is shown with
\* both forms hidden, and no table and no sheet changes.
C5_MissingSeparatorIsDecodeError ==
    [][ ( /\ clickData' # << >>
          /\ LacksSeparator(clickData'[1].y)
          /\ (clickData' # clickData \/ n_clicks' = n_clicks + 1) ) =>
          /\ raised' = ""
          /\ output_text' = ParseErrorMessage
          /\ date_input_section' = "none"
          /\ edit_section' = "none"
          /\ dataframes' = dataframes
          /\ excel_file' = excel_file ]_vars

\* C5 witness: the commit handler ran on a key without separator.
C5_Witness ==
    /\ clickData # << >>
    /\ LacksSeparator(clickData[1].y)
    /\ n_clicks > 0
    /\ output_text = ParseErrorMessage

\* The key of a row, and whether the projector may plot the row.
Plotted(df, i, col) == df[i]["Risk Level"] # Closed /\ df[i][col] # NaT

\* C6: the figure holds no point for a row whose Risk Level is "Closed"; for
\* every other row and milestone column it holds one point with the row's key
\* when the date is present and none when the date is absent, in particular
\* when the sheet's cell does not parse.
C6_Projection ==
    LET df == dataframes[sheet_dropdown]
        sheet == excel_file[sheet_dropdown]
        PointsOf(key, col) ==
            { k \in 1..Len(figure) :
                figure[k].y = key /\ figure[k].customdata = col }
        RowsOf(key, col) ==
            { i \in 1..Len(df) :
                Project_SIE_Risk(df[i]) = key /\ Plotted(df, i, col) }
    IN  /\ \A k \in 1..Len(figure) :
              /\ figure[k].x # << >>
              /\ \E i \in 1..Len(df) :
                    /\ df[i]["Risk Level"] # Closed
                    /\ figure[k].y = Project_SIE_Risk(df[i])
                    /\ figure[k].x = FormatDate(df[i][figure[k].customdata])
        /\ \A i \in 1..Len(df) : \A col \in DateCols :
              LET key == Project_SIE_Risk(df[i])
              IN  /\ Cardinality(PointsOf(key, col))
                        = Cardinality(RowsOf(key, col))
                  /\ (/\ to_datetime(sheet[i][col]) = NaT
                      /\ Cardinality(RowsOf(key, col) \ {i}) = 0)
                        => PointsOf(key, col) = {}
        /\ Len(figure) =
              Cardinality({ p \in (1..Len(df)) \X DateCols :
                              Plotted(df, p[1], p[2]) })

\* C6 witness: the figure drawn for a sheet that has a closed row with a date
\* and an open row with a date text that does not parse.
C6_Witness ==
    LET df == dataframes[sheet_dropdown]
        sheet == excel_file[sheet_dropdown]
    IN  /\ figure # << >>
        /\ \E i \in 1..Len(df) : \E col \in DateCols :
              df[i]["Risk Level"] = Closed /\ df[i][col] # NaT
        /\ \E i \in 1..Len(df) : \E col \in DateCols :
              /\ df[i]["Risk Level"] # Closed
              /\ sheet[i][col].t = "str"
              /\ df[i][col] = NaT

\* A sheet holds the contents of a table: the same rows, every date cell
\* reading as the table's date, every other cell equal.
HoldsTable(sheet, df) ==
    /\ Len(sheet) = Len(df)
    /\ \A i \in 1..Len(df) : \A c \in Columns :
          IF c \in DateCols
          THEN to_datetime(sheet[i][c]) = df[i][c]
          ELSE sheet[i][c] = df[i][c]

\* C7: a write-back of a commit replaces the sheet named by the dropdown with
\* the contents of that sheet's table and leaves every other sheet of the
\* workbook as it was.
C7_WriteBackOneSheet ==
    [][ excel_file' # excel_file =>
          /\ CommitStep
          /\ DOMAIN excel_file' = DOMAIN excel_file
          /\ HoldsTable(excel_file'[sheet_dropdown],
                        dataframes'[sheet_dropdown])
          /\ \A s \in DOMAIN excel_file \ {sheet_dropdown} :
                excel_file'[s] = excel_file[s] ]_vars

\* C7 witness: a commit has written the submitted note into the selected
\* sheet; the workbook still has its other sheets.
C7_Witness ==
    /\ output_text.msg = SavedMessage(<< >>).msg
    /\ \E i \in 1..Len(excel_file[sheet_dropdown]) :
          excel_file[sheet_dropdown][i]["Next step plan"] \in NoteTexts
    /\ excel_file["Summary"] = SummarySheet
    /\ \E s \in sheet_names \ {sheet_dropdown} : excel_file[s] # << >>

\* C8: in a sheet written by a commit, every present milestone date is the
\* text YYYY-MM-DD and every absent one is an empty cell.
C8_DatesWrittenAsText ==
    [][ excel_file' # excel_file =>
          LET df == dataframes'[sheet_dropdown]
              sheet == excel_file'[sheet_dropdown]
          IN  \A i \in 1..Len(sheet) : \A col \in DateCols :
                  IF df[i][col] = NaT
                  THEN sheet[i][col] = EmptyCell
                  ELSE sheet[i][col] = TextCell(FormatDate(df[i][col])) ]_vars

\* The note fields of row i agree between a sheet and a table.
NotesAgree(sheet, df, i) ==
    /\ sheet[i]["Next step plan"] = df[i]["Next step plan"]
    /\ sheet[i]["Action Items for Cindy"] = df[i]["Action Items for Cindy"]

\* C9: when the write of a commit fails, the matched row keeps the submitted
\* notes in memory and the workbook keeps its contents, so the row differs
\* between memory and file wherever the submitted notes differ from the
\* file's; a commit to the sheet that succeeds makes them agree again.
C9_NoRollback ==
    [][ CommitStep =>
          LET before == dataframes[sheet_dropdown]
              df == dataframes'[sheet_dropdown]
              sheet == excel_file[sheet_dropdown]
          IN  /\ raised' # "" =>
                    /\ excel_file' = excel_file
                    /\ \A i \in Matched(before, Decoded) :
                          /\ df[i] = WithNotes(before[i], next_step_plan,
                                               action_items)
                          /\ NotesAgree(excel_file'[sheet_dropdown], df, i)
                               <=> /\ sheet[i]["Next step plan"]
                                        = next_step_plan
                                   /\ sheet[i]["Action Items for Cindy"]
                                        = action_items
              /\ output_text' = SavedMessage(clickData[1].y) =>
                    \A i \in 1..Len(df) :
                        NotesAgree(excel_file'[sheet_dropdown], df, i) ]_vars

\* C9 witness: a commit's write failed and the committed row differs between
\* memory and file.
C9_Witness ==
    /\ raised # ""
    /\ clickData # << >>
    /\ \E i \in Matched(dataframes[sheet_dropdown], Decoded) :
          /\ dataframes[sheet_dropdown][i]["Next step plan"] \in NoteTexts
          /\ ~NotesAgree(excel_file[sheet_dropdown],
                         dataframes[sheet_dropdown], i)

\* C10: no error raised while handling a click or a commit leaves the handler
\* as an exception.
C10_NoErrorEscapes == raised = ""

\* C11: whenever the handlers decode the selected key with success,
\* re-encoding the decoded (project, sie, risk level) gives the key back; a
\* key with extra (or no) trailing parenthesis is not decoded.
C11_DecodeOnlyExactEncodings ==
    (clickData # << >> /\ Decoded.exc = "") =>
        Project_SIE_Risk(
            [ c \in {"Project", "SIE", "Risk Level"} |->
                IF c = "Project" THEN Decoded.project_name
                ELSE IF c = "SIE" THEN Decoded.sie
                ELSE Decoded.risk_level ]) = clickData[1].y

\* A step in which a point was selected: the graph's clickData changed.
ClickStep == clickData' # clickData /\ clickData' # << >>

\* The key selected by the step, decoded.
DecodedNext == parse_selected_project(clickData'[1].y)

\* Both forms hidden and every form field empty, after the step.
IdleNext ==
    /\ date_input_section' = "none"
    /\ edit_section' = "none"
    /\ new_date_input' = << >>
    /\ next_step_plan' = ""
    /\ action_items' = ""

\* The rows of df whose identity fields are the decoded ones.
RowsWithIdentity(df, d) ==
    { i \in 1..Len(df) :
        /\ d.exc = ""
        /\ df[i]["Project"] = d.project_name
        /\ df[i]["SIE"] = d.sie
        /\ df[i]["Risk Level"] = d.risk_level }

\* C12: a point selection whose key fails to decode leaves both forms hidden
\* and the fields empty, changes no table and no sheet, and shows an error
\* message that names the key.
C12_DecodeFailureNamesKey ==
    [][ (ClickStep /\ DecodedNext.exc # "") =>
          /\ IdleNext
          /\ dataframes' = dataframes
          /\ excel_file' = excel_file
          /\ output_text'.msg # ""
          /\ output_text'.key = clickData'[1].y ]_vars

\* C13: a point selection whose decoded key matches no row of the selected
\* sheet's table leaves both forms hidden and the fields empty, shows the "no
\* matching project" error naming the key, and changes no table and no sheet.
C13_NoMatchingProject ==
    [][ ( /\ ClickStep
          /\ DecodedNext.exc = ""
          /\ RowsWithIdentity(dataframes[sheet_dropdown], DecodedNext) = {} )
        =>
          /\ IdleNext
          /\ raised' = ""
          /\ output_text' = NoMatchMessage(clickData'[1].y)
          /\ dataframes' = dataframes
          /\ excel_file' = excel_file ]_vars

\* C13 witness: the "no matching project" error is shown for a selected key
\* that decodes and whose identity is in no row of the selected table.
C13_Witness ==
    /\ clickData # << >>
    /\ Decoded.exc = ""
    /\ RowsWithIdentity(dataframes[sheet_dropdown], Decoded) = {}
    /\ output_text = NoMatchMessage(clickData[1].y)
    /\ edit_section = "none"

\* The first row of df with the decoded identity.
FirstRowWithIdentity(df, d) ==
    CHOOSE i \in RowsWithIdentity(df, d) :
        \A j \in RowsWithIdentity(df, d) : i <= j

\* C14: a point selection whose key decodes and matches a row of the selected
\* sheet's table shows both forms, the two note fields as that row holds them
\* in memory at that moment, and the clicked point's date in the date field.
C14_ViewingShowsStoredNotes ==
    [][ ( /\ ClickStep
          /\ RowsWithIdentity(dataframes[sheet_dropdown], DecodedNext) # {} )
        =>
          LET df == dataframes[sheet_dropdown]
              i == FirstRowWithIdentity(df, DecodedNext)
          IN  /\ date_input_section' = "block"
              /\ edit_section' = "block"
              /\ next_step_plan' = df[i]["Next step plan"]
              /\ action_items' = df[i]["Action Items for Cindy"]
              /\ new_date_input' = clickData'[1].x
              /\ output_text' = NoMessage ]_vars

\* C14 witness: after a commit, a click on a point of the sheet that was
\* clicked before shows the committed note.
C14_Witness ==
    /\ edit_section = "block"
    /\ n_clicks > 0
    /\ raised = ""
    /\ clicked_sheet = sheet_dropdown
    /\ next_step_plan \in NoteTexts
    /\ \E i \in RowsWithIdentity(dataframes[sheet_dropdown], Decoded) :
          /\ dataframes[sheet_dropdown][i]["Next step plan"] = next_step_plan
          /\ dataframes[sheet_dropdown][i]["Action Items for Cindy"]
               = action_items
          /\ excel_file[sheet_dropdown][i]["Next step plan"] = next_step_plan

\* C15: a point selection made while the forms are shown overwrites the form
\* with the newly selected row's stored notes, whatever was typed; and no
\* point selection changes a table or a sheet of the workbook.
C15_ClickDiscardsPendingEdit ==
    [][ ClickStep =>
          /\ dataframes' = dataframes
          /\ excel_file' = excel_file
          /\ edit_section' = "block" =>
                \E i \in RowsWithIdentity(dataframes[sheet_dropdown],
                                          DecodedNext) :
                    /\ next_step_plan'
                         = dataframes[sheet_dropdown][i]["Next step plan"]
                    /\ action_items'
                         = dataframes[sheet_dropdown][i]
                             ["Action Items for Cindy"] ]_vars

\* C15 witness: the forms show a row's stored notes although a field had
\* been edited and not committed before the click, and those notes are not
\* the edited text.
C15_Witness ==
    /\ discarded_edit
    /\ edit_section = "block"
    /\ next_step_plan \notin NoteTexts
    /\ action_items \notin NoteTexts
    /\ store = << excel_file, [ s \in sheet_names |-> read_excel(excel_file[s]) ] >>

\* C16: after a commit completes, no row key is selected, both forms are
\* hidden and the form fields are empty.
C16_PendingEditCleared ==
    [][ (CommitStep /\ raised' = "") =>
          /\ clickData' = << >>
          /\ IdleNext ]_vars

\* C17: a commit changes no table but the one of the sheet that was selected
\* when the committed point was clicked.
C17_CommitToClickedSheet ==
    [][ (CommitStep /\ raised' = "") =>
          \A s \in sheet_names \ {clicked_sheet} :
              dataframes'[s] = dataframes[s] ]_vars

\* C18: a commit that ends with the "successfully saved" message leaves, in
\* the selected sheet's table, a row of the decoded identity that holds the
\* two submitted notes; without such a row the commit reports an error.
C18_SavedOnlyIfRowUpdated ==
    [][ ( /\ CommitStep
          /\ raised' = ""
          /\ output_text'.msg = SavedMessage(clickData[1].y).msg )
        =>
          \E i \in RowsWithIdentity(dataframes'[sheet_dropdown], Decoded) :
              /\ dataframes'[sheet_dropdown][i]["Next step plan"]
                   = next_step_plan
              /\ dataframes'[sheet_dropdown][i]["Action Items for Cindy"]
                   = action_items ]_vars

\* Every table agrees with its sheet of the workbook on the notes and on the
\* identity fields of every row.
TablesAgreeWithSheets ==
    \A s \in sheet_names :
        /\ Len(excel_file[s]) = Len(dataframes[s])
        /\ \A i \in 1..Len(dataframes[s]) :
              /\ NotesAgree(excel_file[s], dataframes[s], i)
              /\ \A c \in {"Project", "SIE", "Risk Level"} :
                    excel_file[s][i][c] = dataframes[s][i][c]

\* The same, after the step.
TablesAgreeWithSheetsNext ==
    \A s \in sheet_names :
        /\ Len(excel_file'[s]) = Len(dataframes'[s])
        /\ \A i \in 1..Len(dataframes'[s]) :
              /\ NotesAgree(excel_file'[s], dataframes'[s], i)
              /\ \A c \in {"Project", "SIE", "Risk Level"} :
                    excel_file'[s][i][c] = dataframes'[s][i][c]

\* C19: the tables agree with the sheets after the load, and every event
\* other than a commit whose write fails keeps them in agreement.
C19_TablesAgreeUntilWriteFails ==
    /\ TablesAgreeWithSheets
    /\ [][ (TablesAgreeWithSheets /\ raised' # "OSError")
           => TablesAgreeWithSheetsNext ]_vars

\* C19 witness: after commits none of which failed to write, a typed note is
\* in a table and in its sheet, and the tables agree with the sheets.
C19_Witness ==
    /\ n_clicks = MaxClicks
    /\ raised = ""
    /\ TablesAgreeWithSheets
    /\ \E s \in sheet_names : \E i \in 1..Len(dataframes[s]) :
          /\ dataframes[s][i]["Action Items for Cindy"] \in NoteTexts
          /\ excel_file[s][i]["Action Items for Cindy"] \in NoteTexts

\* The callback called for "Commit Edit" with the page's state and click
\* count n leaves everything as it is and returns the empty outputs.
CommitIsNoOp(n) ==
    handle_date_modification("commit-edit-btn.n_clicks", clickData, n,
        next_step_plan, action_items, clickData, sheet_dropdown, dataframes,
        excel_file, TRUE)
      = [ ret |-> Hidden(NoMessage), raised |-> "", frames |-> dataframes,
          workbook |-> excel_file ]

\* C20: a commit event with no selected point or with a click count of zero
\* changes no table and no sheet, shows no message and leaves both forms
\* hidden; as long as no point is selected this is what every event does, and
\* the tables and the workbook change in no step but a commit with a
\* selected point and a positive click count.
C20_CommitWithoutSelectionIsNoOp ==
    /\ [](CommitIsNoOp(0))
    /\ [](clickData = << >> => \A n \in 0..MaxClicks : CommitIsNoOp(n))
    /\ [][ clickData' = << >> =>
             /\ store' = store
             /\ output_text' = NoMessage
             /\ IdleNext
             /\ raised' = "" ]_vars
    /\ [][ store' # store => CommitStep ]_vars

\* C20 witness: "Commit Edit" events were handled although no point was ever
\* selected.
C20_Witness ==
    /\ clickData = << >>
    /\ n_clicks = MaxClicks
    /\ store = << excel_file,
                  [ s \in sheet_names |-> read_excel(excel_file[s]) ] >>
    /\ output_text = NoMessage
    /\ edit_section = "none"

====
